---------------------------- MODULE Spec2Model ----------------------------
(***************************************************************************)
(* A model of convolve (dk949/convolve): the command line of args.hpp, the *)
(* kernel builders, the custom-matrix parser, reflect, threshold, convolve *)
(* and the row-parallel pixel loop of main.cpp.                            *)
(*                                                                         *)
(* C++ double values are modelled bit-exactly as IEEE-754 binary64 numbers *)
(* (round to nearest, ties to even).  TLC integers are 32 bits wide, so a  *)
(* 53-bit significand is kept as a little-endian sequence of 15-bit limbs. *)
(***************************************************************************)
EXTENDS Integers, Sequences, FiniteSets, TLC

\* the element of a one-element set.  The({e : x \in {v}}) is e with x
\* standing for the value of v, which is computed once
The(S) == CHOOSE v \in S : TRUE

\* the function f on 1..n as a sequence: its elements are computed once, here
Listed(f) == <<>> \o f

(***************************************************************************)
(* Natural numbers of arbitrary size: little-endian limbs, no high zeros.  *)
(***************************************************************************)
LimbBits == 15
LimbBase == 32768

Max(a, b) == IF a >= b THEN a ELSE b
Min(a, b) == IF a <= b THEN a ELSE b
Abs(n) == IF n < 0 THEN -n ELSE n

PowersOfTwo ==
    <<1, 2, 4, 8, 16, 32, 64, 128, 256, 512, 1024, 2048, 4096, 8192, 16384,
      32768>>

\* 2^k for k <= LimbBits
Pow2(k) == PowersOfTwo[k + 1]

Limb(a, i) == IF i >= 1 /\ i <= Len(a) THEN a[i] ELSE 0

\* a without its high zero limbs
BNorm(a0) ==
    The({SubSeq(a, 1, CHOOSE n \in 0..Len(a) :
                          /\ n = 0 \/ a[n] # 0
                          /\ \A j \in (n + 1)..Len(a) : a[j] = 0) :
         a \in {a0}})

\* for 0 <= n < 2^31
BFromInt(n) ==
    BNorm(<<n % LimbBase, (n \div LimbBase) % LimbBase,
            n \div (LimbBase * LimbBase)>>)

\* for a < 2^31
BToInt(a0) ==
    The({Limb(a, 1) + LimbBase * Limb(a, 2) + LimbBase * LimbBase * Limb(a, 3) :
         a \in {a0}})

\* a + b carries into limb i
BCarryIn(a, b, i) ==
    \E j \in 1..(i - 1) :
        /\ Limb(a, j) + Limb(b, j) >= LimbBase
        /\ \A k \in (j + 1)..(i - 1) : Limb(a, k) + Limb(b, k) = LimbBase - 1

BAdd(a0, b0) ==
    The({BNorm(Listed([i \in 1..(Max(Len(a), Len(b)) + 1) |->
                   (Limb(a, i) + Limb(b, i)
                        + (IF BCarryIn(a, b, i) THEN 1 ELSE 0)) % LimbBase])) :
         a \in {a0}, b \in {b0}})

\* a - b borrows from limb i
BBorrowIn(a, b, i) ==
    \E j \in 1..(i - 1) :
        /\ Limb(a, j) < Limb(b, j)
        /\ \A k \in (j + 1)..(i - 1) : Limb(a, k) = Limb(b, k)

\* a - b, for a >= b
BSub(a0, b0) ==
    The({BNorm(Listed([i \in 1..Len(a) |->
                   (Limb(a, i) - Limb(b, i)
                        - (IF BBorrowIn(a, b, i) THEN 1 ELSE 0)) % LimbBase])) :
         a \in {a0}, b \in {b0}})

\* -1, 0 or 1 as a < b, a = b or a > b
BCmp(a0, b0) ==
    The({IF Len(a) < Len(b) THEN -1
         ELSE IF Len(a) > Len(b) THEN 1
         ELSE IF \A i \in 1..Len(a) : a[i] = b[i] THEN 0
         ELSE IF \E i \in 1..Len(a) :
                     /\ a[i] < b[i]
                     /\ \A j \in (i + 1)..Len(a) : a[j] = b[j]
         THEN -1
         ELSE 1 :
         a \in {a0}, b \in {b0}})

\* the number whose limbs are the digits w[i] < LimbBase^2
BCarry(w0) ==
    The({BAdd(Listed([i \in 1..Len(w) |-> w[i] % LimbBase]),
              <<0>> \o [i \in 1..Len(w) |-> w[i] \div LimbBase]) :
         w \in {w0}})

\* a * d for one limb d
BMulLimb(a0, d0) ==
    The({BCarry(Listed([i \in 1..Len(a) |-> a[i] * d])) :
         a \in {a0}, d \in {d0}})

RECURSIVE ColumnSum(_, _, _, _)
\* limb k of P[lo] * LimbBase^(lo - 1) + ... + P[hi] * LimbBase^(hi - 1),
\* carries not propagated
ColumnSum(P, k, lo, hi) ==
    IF lo > hi THEN 0
    ELSE IF lo = hi THEN Limb(P[lo], k - lo + 1)
    ELSE ColumnSum(P, k, lo, (lo + hi) \div 2)
             + ColumnSum(P, k, ((lo + hi) \div 2) + 1, hi)

\* a * b, for b of at most LimbBase limbs
BMul(a0, b0) ==
    The({The({BCarry(Listed([k \in 1..(Len(a) + Len(b)) |->
                                 ColumnSum(P, k, 1, Len(b))])) :
              P \in {Listed([j \in 1..Len(b) |-> BMulLimb(a, b[j])])}}) :
         a \in {a0}, b \in {b0}})

\* a * 2^k
BShl(a0, k0) ==
    The({BNorm(Listed([i \in 1..(Len(a) + q + 1) |->
                   ((Limb(a, i - q) * Pow2(r)) % LimbBase)
                       + (Limb(a, i - q - 1) \div Pow2(LimbBits - r))])) :
         a \in {a0}, q \in {k0 \div LimbBits}, r \in {k0 % LimbBits}})

\* floor(a / 2^k)
BShr(a0, k0) ==
    The({IF q >= Len(a) THEN <<>>
         ELSE BNorm(Listed([i \in 1..(Len(a) - q) |->
                        (Limb(a, i + q) \div Pow2(r))
                            + ((Limb(a, i + q + 1) % Pow2(r))
                                   * Pow2(LimbBits - r))])) :
         a \in {a0}, q \in {k0 \div LimbBits}, r \in {k0 % LimbBits}})

\* the number of bits of a limb
IntBitLen(n) == Cardinality({k \in 0..(LimbBits - 1) : Pow2(k) <= n})

BBitLen(a0) ==
    The({IF a = <<>> THEN 0
         ELSE (Len(a) - 1) * LimbBits + IntBitLen(a[Len(a)]) :
         a \in {a0}})

BIsOdd(a0) == The({a # <<>> /\ a[1] % 2 = 1 : a \in {a0}})

\* one digit of a long division: floor(R / D) for R < D * LimbBase, where the
\* top limb of D is at least LimbBase / 2 (the estimate from the top limbs is
\* then at most 2 too large)
BQuotDigit(R, D) ==
    The({IF BCmp(BMulLimb(D, qhat), R) <= 0 THEN qhat
         ELSE IF BCmp(BMulLimb(D, qhat - 1), R) <= 0 THEN qhat - 1
         ELSE qhat - 2 :
         qhat \in {Min(LimbBase - 1,
                       (Limb(R, Len(D) + 1) * LimbBase + Limb(R, Len(D)))
                           \div D[Len(D)])}})

\* one step of a long division by D: the limb n is brought down to the
\* remainder and a digit is put before the quotient; qr is <<quotient,
\* remainder>>
BDivStep(D, n, qr) ==
    The({The({<<<<q>> \o qr[1], BSub(R, BMulLimb(D, q))>> :
              q \in {BQuotDigit(R, D)}}) :
         R \in {BNorm(<<n>> \o qr[2])}})

RECURSIVE BDivFrom(_, _, _, _)
\* long division of the limbs i, i - 1, ..., 1 of N by D after qr
BDivFrom(N, D, i, qr) ==
    IF i = 0 THEN <<BNorm(qr[1]), qr[2]>>
    ELSE The({BDivFrom(N, D, i - 1, qr1) : qr1 \in {BDivStep(D, N[i], qr)}})

\* <<floor(N / D), a remainder that is zero exactly when D divides N>>, D > 0
BDivMod(N0, D0) ==
    The({The({IF Len(N) < Len(D) THEN <<<<>>, N>>
              ELSE BDivFrom(N, D, Len(N) - Len(D) + 1,
                            <<<<>>, BNorm(SubSeq(N, Len(N) - Len(D) + 2,
                                                 Len(N)))>>) :
              N \in {BShl(N0, sh)}, D \in {BShl(D1, sh)}}) :
         D1 \in {D0}, sh \in {LimbBits - IntBitLen(D0[Len(D0)])}})

(***************************************************************************)
(* IEEE-754 binary64.  A finite double is [s, m, e] with value             *)
(* (-1)^s * m * 2^e, where m is zero or has exactly 53 bits.               *)
(***************************************************************************)
MantBits == 53
\* every finite double is below 2^MaxExp in magnitude and a multiple of 2^MinExp
MaxExp == 1024
MinExp == -1074

DZero(s) == [s |-> s, m |-> <<>>, e |-> 0]
DIsZero(d) == d.m = <<>>

\* the infinity of sign s, and a NaN (its sign and payload are not modelled)
DInf(s) == [s |-> s, m |-> <<1>>, e |-> MaxExp]
DNaN == [s |-> 0, m |-> <<2>>, e |-> MaxExp]
DIsInf(d) == d.e = MaxExp /\ d.m = <<1>>
DIsNaN(d) == d.e = MaxExp /\ d.m = <<2>>
DIsFinite(d) == d.e < MaxExp

\* the double of sign s, MantBits-bit mantissa m and exponent e, the infinity
\* when that is out of range
DPack(s, m, e) ==
    IF e > MaxExp - MantBits THEN DInf(s) ELSE [s |-> s, m |-> m, e |-> e]

\* q, the bits of M above the k low ones, plus one when the k low bits (and
\* what lies below them when sticky) round up, ties to even
RoundUp(M, q, k, sticky) ==
    The({IF c > 0 \/ (c = 0 /\ (sticky \/ BIsOdd(q))) THEN BAdd(q, <<1>>) ELSE q :
         c \in {BCmp(BSub(M, BShl(q, k)), BShl(<<1>>, k - 1))}})

\* M of more than MantBits bits, cut to MantBits bits
RoundCut(s, M, E, sticky, k) ==
    The({The({IF BBitLen(q1) > MantBits
              THEN DPack(s, BShr(q1, 1), E + k + 1)
              ELSE DPack(s, q1, E + k) :
              q1 \in {RoundUp(M, q, k, sticky)}}) :
         q \in {BShr(M, k)}})

\* M * 2^E below the normal range, rounded to a multiple of 2^MinExp by
\* cutting its k = MinExp - E low bits (gradual underflow)
RoundTiny(s, M, sticky, k) ==
    The({The({IF bl = 0 THEN DZero(s)
              ELSE [s |-> s, m |-> BShl(q1, MantBits - bl),
                    e |-> MinExp - (MantBits - bl)] :
              bl \in {BBitLen(q1)}}) :
         q1 \in {RoundUp(M, BShr(M, k), k, sticky)}})

\* the double nearest to (-1)^s * M * 2^E (plus a nonzero amount below one
\* unit of M when sticky), ties to even
RoundPack(s, M0, E, sticky) ==
    The({The({IF bl = 0 THEN DZero(s)
              ELSE IF E < MinExp /\ E + bl - MantBits < MinExp
              THEN RoundTiny(s, M, sticky, MinExp - E)
              ELSE IF bl <= MantBits
              THEN DPack(s, BShl(M, MantBits - bl), E - (MantBits - bl))
              ELSE RoundCut(s, M, E, sticky, bl - MantBits) :
              bl \in {BBitLen(M)}}) :
         M \in {M0}})

\* the range of int
IntMax == 2147483647
IntMin == -IntMax - 1

\* double(n) for a 32-bit integer n
DOfInt(n) ==
    IF n = IntMin THEN RoundPack(1, <<0, 0, 2>>, 0, FALSE)
    ELSE RoundPack(IF n < 0 THEN 1 ELSE 0, BFromInt(Abs(n)), 0, FALSE)

DNeg(a0) ==
    The({IF DIsNaN(a) THEN a ELSE [a EXCEPT !.s = 1 - a.s] : a \in {a0}})

\* a * b
DMul(a0, b0) ==
    The({IF DIsNaN(a) \/ DIsNaN(b) THEN DNaN
         ELSE IF DIsInf(a) \/ DIsInf(b)
         THEN (IF DIsZero(a) \/ DIsZero(b) THEN DNaN
               ELSE DInf((a.s + b.s) % 2))
         ELSE IF DIsZero(a) \/ DIsZero(b) THEN DZero((a.s + b.s) % 2)
         ELSE RoundPack((a.s + b.s) % 2, BMul(a.m, b.m), a.e + b.e, FALSE) :
         a \in {a0}, b \in {b0}})

\* operands further apart than this many binary places: the smaller one only
\* decides the direction of rounding
FarApart == 60

\* x + y for nonzero x, y with x.e >= y.e
DAddOrdered(x, y) ==
    IF x.e - y.e > FarApart
    THEN The({RoundPack(x.s,
                        IF x.s = y.s THEN BAdd(X, <<1>>) ELSE BSub(X, <<1>>),
                        x.e - 3, FALSE) :
              X \in {BShl(x.m, 3)}})
    ELSE The({The({IF x.s = y.s THEN RoundPack(x.s, BAdd(X, y.m), y.e, FALSE)
                   ELSE IF c = 0 THEN DZero(0)
                   ELSE IF c > 0 THEN RoundPack(x.s, BSub(X, y.m), y.e, FALSE)
                   ELSE RoundPack(y.s, BSub(y.m, X), y.e, FALSE) :
                   c \in {BCmp(X, y.m)}}) :
              X \in {BShl(x.m, x.e - y.e)}})

\* a + b
DAdd(a0, b0) ==
    The({IF DIsNaN(a) \/ DIsNaN(b) THEN DNaN
         ELSE IF DIsInf(a)
         THEN (IF DIsInf(b) /\ a.s # b.s THEN DNaN ELSE a)
         ELSE IF DIsInf(b) THEN b
         ELSE IF DIsZero(a) /\ DIsZero(b)
         THEN DZero(IF a.s = 1 /\ b.s = 1 THEN 1 ELSE 0)
         ELSE IF DIsZero(a) THEN b
         ELSE IF DIsZero(b) THEN a
         ELSE IF a.e >= b.e THEN DAddOrdered(a, b) ELSE DAddOrdered(b, a) :
         a \in {a0}, b \in {b0}})

\* a / b
DDiv(a0, b0) ==
    The({IF DIsNaN(a) \/ DIsNaN(b) THEN DNaN
         ELSE IF DIsInf(a)
         THEN (IF DIsInf(b) THEN DNaN ELSE DInf((a.s + b.s) % 2))
         ELSE IF DIsInf(b) THEN DZero((a.s + b.s) % 2)
         ELSE IF DIsZero(b)
         THEN (IF DIsZero(a) THEN DNaN ELSE DInf((a.s + b.s) % 2))
         ELSE IF DIsZero(a) THEN DZero((a.s + b.s) % 2)
         ELSE The({RoundPack((a.s + b.s) % 2, qr[1],
                             a.e - b.e - (MantBits + 3), qr[2] # <<>>) :
                   qr \in {BDivMod(BShl(a.m, MantBits + 3), b.m)}}) :
         a \in {a0}, b \in {b0}})

\* the magnitude of the integer part of the finite a
TruncMag(a) == IF a.e >= 0 THEN BShl(a.m, a.e) ELSE BShr(a.m, -a.e)

\* the integer part of a, toward zero, for finite a with |a| < 2^31
DTrunc(a0) ==
    The({The({IF a.s = 1 THEN -mag ELSE mag : mag \in {BToInt(TruncMag(a))}}) :
         a \in {a0}})

\* a is finite and below 2^31 in magnitude
FitsInt(a) == DIsFinite(a) /\ (DIsZero(a) \/ BBitLen(a.m) + a.e <= 31)

\* The conversion of a double outside the range of the integer type is
\* undefined; it yields what the build's instruction leaves.
Builds == {"x86_64", "aarch64"}

\* int(a): cvttsd2si leaves INT_MIN for every a out of range, fcvtzs the
\* nearest end of the range and 0 for a NaN (-2^31 is INT_MIN either way)
IntOf(a0, bld) ==
    The({IF FitsInt(a) THEN DTrunc(a)
         ELSE IF bld = "x86_64" THEN IntMin
         ELSE IF DIsNaN(a) THEN 0
         ELSE IF a.s = 1 THEN IntMin
         ELSE IntMax :
         a \in {a0}})

\* a + b on int, an overflow wrapping round as the add instruction does
IntAdd(a, b) ==
    IF a >= 0 /\ b >= 0 /\ a > IntMax - b THEN (a + IntMin) + (b + IntMin)
    ELSE IF a < 0 /\ b < 0 /\ a < IntMin - b THEN (a - IntMin) + (b - IntMin)
    ELSE a + b

RECURSIVE ISqrtFrom(_, _, _)
\* floor(sqrt(n)) for n < 2^30, bit by bit from bit b down: r holds the bits
\* above b
ISqrtFrom(n, b, r) ==
    IF b < 0 THEN r
    ELSE IF (r + Pow2(b)) * (r + Pow2(b)) <= n
    THEN ISqrtFrom(n, b - 1, r + Pow2(b))
    ELSE ISqrtFrom(n, b - 1, r)

\* the bits of a root that are found before Newton's iteration starts
RootBits == 15

\* an estimate x >= sqrt(M) from the top 2 * RootBits bits of M at most, for
\* M of bl bits
BSqrtEstimate(M, bl) ==
    The({BShl(BFromInt(ISqrtFrom(BToInt(BShr(M, 2 * s)), RootBits - 1, 0) + 1), s) :
         s \in {Max(0, (bl - 2 * RootBits + 1) \div 2)}})

RECURSIVE BSqrtFrom(_, _)
\* floor(sqrt(M)) by Newton's iteration from an estimate x >= sqrt(M)
BSqrtFrom(M, x) ==
    The({The({IF BCmp(y, x) >= 0 THEN x ELSE BSqrtFrom(M, y) :
              y \in {BShr(BAdd(x, qr[1]), 1)}}) :
         qr \in {BDivMod(M, x)}})

BSqrt(M0) ==
    The({IF M = <<>> THEN <<>>
         ELSE The({BSqrtFrom(M, x) : x \in {BSqrtEstimate(M, BBitLen(M))}}) :
         M \in {M0}})

\* sqrt(a) for a >= 0: the root of a.m * 2^k, k making the exponent even
DSqrtShifted(a, k) ==
    The({The({RoundPack(0, R, (a.e - k) \div 2, BCmp(BMul(R, R), M) # 0) :
              R \in {BSqrt(M)}}) :
         M \in {BShl(a.m, k)}})

DSqrt(a0) ==
    The({IF DIsZero(a) \/ DIsNaN(a) THEN a
         ELSE IF a.s = 1 THEN DNaN
         ELSE IF DIsInf(a) THEN a
         ELSE DSqrtShifted(a, IF (a.e % 2) = 0 THEN MantBits + 5
                              ELSE MantBits + 6) :
         a \in {a0}})

\* a <= b
DLeq(a, b) ==
    The({~DIsNaN(d) /\ (DIsZero(d) \/ d.s = 1) : d \in {DAdd(a, DNeg(b))}})
        \/ (DIsInf(a) /\ a = b)

(***************************************************************************)
(* Text.  A C string is a sequence of one-character strings; reading at    *)
(* its end yields the terminating NUL.  strtod is the C library's in the   *)
(* "C" locale: white space, a sign, then "inf", "infinity", "nan",         *)
(* "nan(...)", a hexadecimal number with an optional binary exponent, or a *)
(* decimal number with an optional decimal exponent, rounded once to the   *)
(* nearest double.                                                         *)
(***************************************************************************)
NUL == "NUL"

CharAt(text, p) == IF p >= 1 /\ p <= Len(text) THEN text[p] ELSE NUL

DigitChars == <<"0", "1", "2", "3", "4", "5", "6", "7", "8", "9">>

IsDigit(c) == \E d \in 1..10 : DigitChars[d] = c

DigitVal(c) == (CHOOSE d \in 1..10 : DigitChars[d] = c) - 1

HexLower == DigitChars \o <<"a", "b", "c", "d", "e", "f">>
HexUpper == DigitChars \o <<"A", "B", "C", "D", "E", "F">>

IsHex(c) == \E d \in 1..16 : HexLower[d] = c \/ HexUpper[d] = c

HexVal(c) == (CHOOSE d \in 1..16 : HexLower[d] = c \/ HexUpper[d] = c) - 1

\* the characters of the sequence in nan(...)
WordChars ==
    {DigitChars[d] : d \in 1..10}
        \cup {"a", "b", "c", "d", "e", "f", "g", "h", "i", "j", "k", "l", "m",
              "n", "o", "p", "q", "r", "s", "t", "u", "v", "w", "x", "y", "z",
              "A", "B", "C", "D", "E", "F", "G", "H", "I", "J", "K", "L", "M",
              "N", "O", "P", "Q", "R", "S", "T", "U", "V", "W", "X", "Y", "Z",
              "_"}

\* isspace in the "C" locale: space, \t, \n, \v (written as the character
\* itself), \f and \r
isspace(c) == c \in {" ", "\t", "\n", "", "\f", "\r"}

\* the first position from p on that does not hold white space
SkipSpace(text, p) ==
    CHOOSE q \in p..(Len(text) + 1) :
        /\ ~isspace(CharAt(text, q))
        /\ \A r \in p..(q - 1) : isspace(CharAt(text, r))

\* the position after the digits that start at p
DigitRun(text, p) ==
    CHOOSE q \in p..(Len(text) + 1) :
        /\ ~IsDigit(CharAt(text, q))
        /\ \A r \in p..(q - 1) : IsDigit(CharAt(text, r))

HexRun(text, p) ==
    CHOOSE q \in p..(Len(text) + 1) :
        /\ ~IsHex(CharAt(text, q))
        /\ \A r \in p..(q - 1) : IsHex(CharAt(text, r))

WordRun(text, p) ==
    CHOOSE q \in p..(Len(text) + 1) :
        /\ CharAt(text, q) \notin WordChars
        /\ \A r \in p..(q - 1) : CharAt(text, r) \in WordChars

\* the text holds the word at p, in either case
Matches(text, p, lower, upper) ==
    \A k \in 1..Len(lower) : CharAt(text, p + k - 1) \in {lower[k], upper[k]}

\* the k-th digit (k from 1) of the number whose digits start at q1 and
\* whose integer part ends before ie
NthDigit(text, q1, ie, k) ==
    DigitVal(text[IF q1 + k - 1 < ie THEN q1 + k - 1 ELSE q1 + k])

PowersOfTen == <<1, 10, 100, 1000, 10000>>

\* the digits are read at most this many at a time
DigitGroup == 4

\* the number written by the m <= DigitGroup digits from the k-th on
GroupValue(text, q1, ie, k, m) ==
    (IF m >= 1 THEN NthDigit(text, q1, ie, k) * PowersOfTen[m] ELSE 0)
        + (IF m >= 2 THEN NthDigit(text, q1, ie, k + 1) * PowersOfTen[m - 1] ELSE 0)
        + (IF m >= 3 THEN NthDigit(text, q1, ie, k + 2) * PowersOfTen[m - 2] ELSE 0)
        + (IF m >= 4 THEN NthDigit(text, q1, ie, k + 3) * PowersOfTen[m - 3] ELSE 0)

RECURSIVE BPow10(_)
\* 10^k, by squaring
BPow10(k) ==
    IF k <= DigitGroup THEN <<PowersOfTen[k + 1]>>
    ELSE The({IF k % 2 = 1 THEN BMulLimb(BMul(h, h), 10) ELSE BMul(h, h) :
              h \in {BPow10(k \div 2)}})

RECURSIVE DigitsRange(_, _, _, _, _)
\* the number written by the n digits from the k-th on, '.' skipped
DigitsRange(text, q1, ie, k, n) ==
    IF n <= DigitGroup THEN BFromInt(GroupValue(text, q1, ie, k, n))
    ELSE The({BAdd(BMul(hi, BPow10(n \div 2)), lo) :
              hi \in {DigitsRange(text, q1, ie, k, n - (n \div 2))},
              lo \in {DigitsRange(text, q1, ie, k + n - (n \div 2), n \div 2)}})

\* the number written by the first n digits
DigitsValue(text, q1, ie, n) == DigitsRange(text, q1, ie, 1, n)

\* the r-th hexadecimal digit from the right (r from 0) of the n digits
\* that start at q1, the integer part ending before ie; 0 beyond them
HexFromRight(text, q1, ie, n, r) ==
    IF r >= n THEN 0
    ELSE HexVal(text[IF q1 + (n - r) - 1 < ie THEN q1 + (n - r) - 1
                     ELSE q1 + (n - r)])

\* the five digits from the d-th from the right on, as a number
HexWindow(text, q1, ie, n, d) ==
    HexFromRight(text, q1, ie, n, d)
        + 16 * HexFromRight(text, q1, ie, n, d + 1)
        + 256 * HexFromRight(text, q1, ie, n, d + 2)
        + 4096 * HexFromRight(text, q1, ie, n, d + 3)
        + 65536 * HexFromRight(text, q1, ie, n, d + 4)

\* the number written by the first n hexadecimal digits, '.' skipped: its
\* limb i holds the bits from LimbBits * (i - 1) on
HexDigitsValue(text, q1, ie, n) ==
    BNorm(Listed([i \in 1..((4 * n + LimbBits - 1) \div LimbBits) |->
              (HexWindow(text, q1, ie, n, (LimbBits * (i - 1)) \div 4)
                   \div Pow2((LimbBits * (i - 1)) % 4)) % LimbBase]))

\* an exponent is followed digit by digit up to this magnitude; beyond it
\* the result is an infinity or a zero whatever the digits
ExpCap == 100000000

RECURSIVE ExpDigits(_, _, _, _)
\* the number written by the digits from a to before b, following acc
ExpDigits(text, a, b, acc) ==
    IF a >= b THEN acc
    ELSE ExpDigits(text, a + 1, b,
                   Min(ExpCap, acc * 10 + DigitVal(text[a])))

\* the exponent part at position fe after one of the two marks: [val, end],
\* end = fe when there is none
ExponentAt(text, fe, marks) ==
    IF CharAt(text, fe) \notin marks THEN [val |-> 0, end |-> fe]
    ELSE The({The({IF de = d1 THEN [val |-> 0, end |-> fe]
                   ELSE [val |-> (IF CharAt(text, fe + 1) = "-" THEN -1 ELSE 1)
                                     * ExpDigits(text, d1, de, 0),
                         end |-> de] :
                   de \in {DigitRun(text, d1)}}) :
              d1 \in {IF CharAt(text, fe + 1) \in {"-", "+"} THEN fe + 2
                      ELSE fe + 1}})

\* the powers of ten beyond which a decimal number with a nonzero digit is
\* an infinity, or one of n digits in all a zero
MaxDecimalExp == 310
MinDecimalExp == -330

\* the double nearest to (-1)^sgn * D * 10^X, D written with n digits
Decimal(sgn, D0, n, X) ==
    The({IF D = <<>> THEN DZero(sgn)
         ELSE IF X > MaxDecimalExp THEN DInf(sgn)
         ELSE IF n + X < MinDecimalExp THEN DZero(sgn)
         ELSE IF X >= 0 THEN RoundPack(sgn, BMul(D, BPow10(X)), 0, FALSE)
         ELSE The({The({The({RoundPack(sgn, qr[1], -k, qr[2] # <<>>) :
                             qr \in {BDivMod(BShl(D, k), P)}}) :
                        k \in {Max(0, MantBits + 3 + BBitLen(P) - BBitLen(D))}}) :
                   P \in {BPow10(-X)}}) :
         D \in {D0}})

\* the double nearest to (-1)^sgn * H * 2^E
Binary(sgn, H0, E) ==
    The({IF H = <<>> THEN DZero(sgn)
         ELSE IF BBitLen(H) + E > MaxExp THEN DInf(sgn)
         ELSE IF BBitLen(H) + E < MinExp - 1 THEN DZero(sgn)
         ELSE RoundPack(sgn, H, E, FALSE) :
         H \in {H0}})

\* the hexadecimal number of sign sgn whose digits run from h1 to ie and,
\* after a '.', to fe
HexAt(text, sgn, h1, ie, fe) ==
    The({[val |-> Binary(sgn,
                         HexDigitsValue(text, h1, ie,
                                        (ie - h1)
                                            + (IF fe > ie THEN fe - (ie + 1)
                                               ELSE 0)),
                         x.val - 4 * (IF fe > ie THEN fe - (ie + 1) ELSE 0)),
          end |-> x.end] :
         x \in {ExponentAt(text, fe, {"p", "P"})}})

\* "0x" or "0X" at q1 with a hexadecimal digit after it, or after a '.'
HexStarts(text, q1) ==
    /\ CharAt(text, q1) = "0"
    /\ CharAt(text, q1 + 1) \in {"x", "X"}
    /\ \/ IsHex(CharAt(text, q1 + 2))
       \/ CharAt(text, q1 + 2) = "." /\ IsHex(CharAt(text, q1 + 3))

\* where "nan" ends whose three letters end before r: after a closed
\* parenthesis of word characters, if one follows
NanEnd(text, r) ==
    IF CharAt(text, r) = "(" /\ CharAt(text, WordRun(text, r + 1)) = ")"
    THEN WordRun(text, r + 1) + 1
    ELSE r

\* strtod for the decimal number of sign sgn with the digits from q1 to ie
\* and, after a '.', to fe; nothing is converted when there is no digit
StrtodAt(text, p, sgn, q1, ie, fe) ==
    IF (ie - q1) + (IF fe > ie THEN fe - (ie + 1) ELSE 0) = 0
    THEN [val |-> DZero(0), end |-> p]
    ELSE The({[val |-> Decimal(sgn,
                               DigitsValue(text, q1, ie,
                                           (ie - q1)
                                               + (IF fe > ie THEN fe - (ie + 1)
                                                  ELSE 0)),
                               (ie - q1)
                                   + (IF fe > ie THEN fe - (ie + 1) ELSE 0),
                               x.val - (IF fe > ie THEN fe - (ie + 1) ELSE 0)),
               end |-> x.end] :
              x \in {ExponentAt(text, fe, {"e", "E"})}})

\* strtod past the white space and the sign, the first character after
\* them at q1
StrtodFrom(text, p, sgn, q1) ==
    IF Matches(text, q1, <<"i", "n", "f">>, <<"I", "N", "F">>)
    THEN [val |-> DInf(sgn),
          end |-> IF Matches(text, q1 + 3, <<"i", "n", "i", "t", "y">>,
                             <<"I", "N", "I", "T", "Y">>)
                  THEN q1 + 8 ELSE q1 + 3]
    ELSE IF Matches(text, q1, <<"n", "a", "n">>, <<"N", "A", "N">>)
    THEN [val |-> DNaN, end |-> NanEnd(text, q1 + 3)]
    ELSE IF HexStarts(text, q1)
    THEN The({HexAt(text, sgn, q1 + 2, ie,
                    IF CharAt(text, ie) = "." THEN HexRun(text, ie + 1)
                    ELSE ie) :
              ie \in {HexRun(text, q1 + 2)}})
    ELSE The({StrtodAt(text, p, sgn, q1, ie,
                       IF CharAt(text, ie) = "." THEN DigitRun(text, ie + 1)
                       ELSE ie) :
              ie \in {DigitRun(text, q1)}})

\* std::strtod(text + p, &end) in the "C" locale: [val, end]
strtod(text, p) ==
    The({StrtodFrom(text, p, IF CharAt(text, q) = "-" THEN 1 ELSE 0,
                    IF CharAt(text, q) \in {"-", "+"} THEN q + 1 ELSE q) :
         q \in {SkipSpace(text, p)}})
(***************************************************************************)
(* Kernel builders (main.cpp).  A kernel is a sequence of doubles, cell    *)
(* [k] of the C array at position k + 1; nullptr is the empty sequence.     *)
(***************************************************************************)
Null == <<>>

\* the 0-based cell k of a C array kept as a sequence
At(arr, k) == arr[k + 1]

sobelX ==
    << <<1, 0, -1, 2, 0, -2, 1, 0, -1>>,
       <<3, 0, -3, 10, 0, -10, 3, 0, -3>>,
       <<47, 0, -47, 162, 0, -162, 47, 0, -47>> >>

\* the second table a copy of the first instead of its transpose
sobelY_SameAsX == sobelX

sobelY ==
    << <<1, 2, 1, 0, 0, 0, -1, -2, -1>>,
       <<3, 10, 3, 0, 0, 0, -3, -10, -3>>,
       <<47, 162, 47, 0, 0, 0, -47, -162, -47>> >>

\* the table sobelX[t] / sobelY[t] as doubles
SobelMat(table, t) == Listed([k \in 1..9 |-> DOfInt(table[t + 1][k])])

M_PI == [s |-> 0, m |-> <<11544, 10376, 2029, 201>>, e |-> -51]

DOne == DOfInt(1)
DTwo == DOfInt(2)

\* the default of -s, the literal 1.4
DefaultSigma == The({r.val : r \in {strtod(<<"1", ".", "4">>, 1)}})

\* libm's exp at the arguments G reaches with the sigmas 1.4, 0.5 and 3 and
\* sizes up to 5: <<argument, result>>
ExpTable ==
    { <<DZero(0), DOne>>,
      <<[s |-> 1, m |-> <<15382, 1337, 20062, 130>>, e |-> -54],
        [s |-> 0, m |-> <<9765, 14897, 11743, 198>>, e |-> -53]>>,
      <<[s |-> 1, m |-> <<15382, 1337, 20062, 130>>, e |-> -53],
        [s |-> 0, m |-> <<7251, 3158, 22790, 153>>, e |-> -53]>>,
      <<[s |-> 1, m |-> <<15382, 1337, 20062, 130>>, e |-> -52],
        [s |-> 0, m |-> <<23751, 13304, 17998, 184>>, e |-> -54]>>,
      <<[s |-> 1, m |-> <<27419, 18055, 8693, 163>>, e |-> -52],
        [s |-> 0, m |-> <<11129, 14636, 32626, 142>>, e |-> -54]>>,
      <<[s |-> 1, m |-> <<15382, 1337, 20062, 130>>, e |-> -51],
        [s |-> 0, m |-> <<13092, 10670, 1335, 133>>, e |-> -55]>>,
      <<[s |-> 1, m |-> <<0, 0, 0, 128>>, e |-> -51],
        [s |-> 0, m |-> <<460, 18303, 19114, 138>>, e |-> -55]>>,
      <<[s |-> 1, m |-> <<0, 0, 0, 128>>, e |-> -50],
        [s |-> 0, m |-> <<15604, 28738, 1366, 150>>, e |-> -58]>>,
      <<[s |-> 1, m |-> <<0, 0, 0, 128>>, e |-> -49],
        [s |-> 0, m |-> <<10157, 2080, 28804, 175>>, e |-> -64]>>,
      <<[s |-> 1, m |-> <<0, 0, 0, 160>>, e |-> -49],
        [s |-> 0, m |-> <<31899, 27336, 13798, 190>>, e |-> -67]>>,
      <<[s |-> 1, m |-> <<0, 0, 0, 128>>, e |-> -48],
        [s |-> 0, m |-> <<1483, 30173, 21870, 241>>, e |-> -76]>>,
      <<[s |-> 1, m |-> <<18204, 14563, 18204, 227>>, e |-> -57],
        [s |-> 0, m |-> <<31114, 5522, 5427, 242>>, e |-> -53]>>,
      <<[s |-> 1, m |-> <<18204, 14563, 18204, 227>>, e |-> -56],
        [s |-> 0, m |-> <<4354, 8249, 2584, 229>>, e |-> -53]>>,
      <<[s |-> 1, m |-> <<18204, 14563, 18204, 227>>, e |-> -55],
        [s |-> 0, m |-> <<17911, 6029, 32400, 204>>, e |-> -53]>>,
      <<[s |-> 1, m |-> <<7282, 25486, 7281, 142>>, e |-> -54],
        [s |-> 0, m |-> <<27078, 1172, 29854, 193>>, e |-> -53]>>,
      <<[s |-> 1, m |-> <<18204, 14563, 18204, 227>>, e |-> -54],
        [s |-> 0, m |-> <<5467, 30665, 4658, 164>>, e |-> -53]>> }

\* exp is 0 at and below this argument, its value being under half the
\* least double
ExpVanishes == DOfInt(-746)

exp(d0) ==
    The({IF DIsNaN(d) THEN d
         ELSE IF DIsInf(d) THEN (IF d.s = 1 THEN DZero(0) ELSE d)
         ELSE IF DIsZero(d) THEN DOne
         ELSE IF DLeq(d, ExpVanishes) THEN DZero(0)
         ELSE (CHOOSE row \in ExpTable : row[1] = d)[2] :
         d \in {d0}})

G(x, y, sigma) ==
    The({DMul(DDiv(DOne, DMul(DMul(DTwo, M_PI), sigma_2)),
              exp(DDiv(DOfInt(-(x * x + y * y)), DMul(DTwo, sigma_2)))) :
         sigma_2 \in {DMul(sigma, sigma)}})

RECURSIVE GaussSumColumn(_, _, _, _, _)
\* the inner loop of makeGaussMat from j on: sum += out[j * size + i]
GaussSumColumn(out, size, i, j, sum) ==
    IF j >= size THEN sum
    ELSE The({GaussSumColumn(out, size, i, j + 1, sum1) :
              sum1 \in {DAdd(sum, At(out, j * size + i))}})

RECURSIVE GaussSum(_, _, _, _)
\* the outer loop of makeGaussMat from i on
GaussSum(out, size, i, sum) ==
    IF i >= size THEN sum
    ELSE The({GaussSum(out, size, i + 1, sum1) :
              sum1 \in {GaussSumColumn(out, size, i, 0, sum)}})

\* the second loop of makeGaussMat: out[i] /= sum
GaussNormalized(out, sum0) ==
    The({Listed([k \in 1..Len(out) |-> DDiv(out[k], sum)]) : sum \in {sum0}})

makeGaussMat(size, sigma0) ==
    \* out[j * size + i] = G(i - mid, j - mid, sigma)
    The({GaussNormalized(out, GaussSum(out, size, 0, DZero(0))) :
         out \in {The({Listed([k \in 1..(size * size) |->
                                  G(((k - 1) % size) - (size \div 2),
                                    ((k - 1) \div size) - (size \div 2),
                                    sigma)]) :
                       sigma \in {sigma0}})}})

makeAvgMat(size) ==
    The({Listed([k \in 1..(size * size) |-> cell]) :
         cell \in {DDiv(DOne, DOfInt(size * size))}})

\* the success test of makeCustomMat for cell (i, j), c the character at end
CellEnds(size, i, j, c) ==
    IF j = size - 1
    THEN (IF i = size - 1 THEN c \in {NUL, "|"} ELSE c = "|")
    ELSE c = ","

RECURSIVE ParseCells(_, _, _, _, _)
\* the cell loop of makeCustomMat from cell k = i * size + j on, the view sv
\* starting at p
ParseCells(text, size, k, p, out) ==
    IF k = size * size THEN [ok |-> TRUE, out |-> out, p |-> p]
    ELSE The({IF ~CellEnds(size, k \div size, k % size, CharAt(text, r.end))
              THEN [ok |-> FALSE, out |-> <<>>, p |-> r.end]
              ELSE ParseCells(text, size, k + 1,
                              r.end + (IF k = size * size - 1 THEN 0 ELSE 1),
                              Append(out, r.val)) :
              r \in {strtod(text, p)}})

RECURSIVE reduce(_, _, _, _)
\* std::reduce(out + first - 1, out + Len(out), init) with an int init, as
\* libstdc++ groups a random-access range: each partial sum is narrowed to
\* int, on the build bld
reduce(out, first, init, bld) ==
    IF Len(out) - first + 1 >= 4
    THEN The({reduce(out, first + 4, IntAdd(init, IntAdd(v1, v2)), bld) :
              v1 \in {IntOf(DAdd(out[first], out[first + 1]), bld)},
              v2 \in {IntOf(DAdd(out[first + 2], out[first + 3]), bld)}})
    ELSE IF first <= Len(out)
    THEN The({reduce(out, first + 1, i1, bld) :
              i1 \in {IntOf(DAdd(DOfInt(init), out[first]), bld)}})
    ELSE init

\* the end of makeCustomMat, for the parsed cells out: out[i] /= sum
Normalized(out, bld) ==
    The({IF sum # 0
         THEN The({Listed([k \in 1..Len(out) |-> DDiv(out[k], dsum)]) :
                   dsum \in {DOfInt(sum)}})
         ELSE out :
         sum \in {reduce(out, 1, 0, bld)}})

\* makeCustomMat reporting a cell error without returning nullptr: the
\* zero-initialised buffer goes on to the caller
makeCustomMat_ReportOnly(custom_mat, size, bld) ==
    The({IF ~r.ok THEN Listed([k \in 1..(size * size) |-> DZero(0)])
         ELSE IF \/ Len(custom_mat) - r.p + 1 = 0
                 \/ (Len(custom_mat) - r.p + 1 = 1 /\ custom_mat[r.p] = "|")
         THEN Normalized(r.out, bld)
         ELSE Null :
         r \in {ParseCells(custom_mat, size, 0, 1, <<>>)}})

makeCustomMat(custom_mat, size, bld) ==
    The({IF ~r.ok THEN Null
         ELSE IF \/ Len(custom_mat) - r.p + 1 = 0
                 \/ (Len(custom_mat) - r.p + 1 = 1 /\ custom_mat[r.p] = "|")
         THEN Normalized(r.out, bld)
         ELSE Null :
         r \in {ParseCells(custom_mat, size, 0, 1, <<>>)}})

\* args.hpp: the matrix size derived from the text of -x
RowCount(sv) ==
    Cardinality({p \in 1..Len(sv) : sv[p] = "|"})
        + (IF Len(sv) > 0 /\ sv[Len(sv)] = "|" THEN 0 ELSE 1)

(***************************************************************************)
(* reflect, threshold and convolve (main.cpp)                              *)
(***************************************************************************)
reflect(x, top) ==
    LET t == top - 1
    IN  IF t < x THEN t - (x - t) ELSE Abs(x)

Uint8Min == 0
Uint8Max == 255

\* threshold with strict comparisons
threshold_Strict(x, lo, hi) ==
    IF x < lo THEN Uint8Min
    ELSE IF x > hi THEN Uint8Max
    ELSE x

\* threshold on an 8-bit x
threshold(x, lo, hi) ==
    IF x <= lo THEN Uint8Min
    ELSE IF x >= hi THEN Uint8Max
    ELSE x


\* the image index and the kernel index convolve reads at window offsets i, j
ConvImageIndex(x, y, channels, ch, width, height, i, j) ==
    reflect(y + j, height) * width * channels
        + reflect(x + (i * channels) + ch, width * channels)

\* the kernel index with the roles of the two offsets exchanged
ConvMatIndex_Transposed(matsize, halfmat, i, j) ==
    (j + halfmat) * matsize + (i + halfmat)

ConvMatIndex(matsize, halfmat, i, j) == (i + halfmat) * matsize + (j + halfmat)

\* every read of convolve stays inside image[] and mat[]
ConvInBounds(mat, image, x, y, channels, ch, width, height, matsize, halfmat) ==
    \A i \in (-halfmat)..halfmat, j \in (-halfmat)..halfmat :
        /\ ConvImageIndex(x, y, channels, ch, width, height, i, j) >= 0
        /\ ConvImageIndex(x, y, channels, ch, width, height, i, j) < Len(image)
        /\ ConvMatIndex(matsize, halfmat, i, j) >= 0
        /\ ConvMatIndex(matsize, halfmat, i, j) < Len(mat)

\* image[ycoord * width * channels + xcoord] * mat[imat * matsize + jmat],
\* for the arguments c of a call of convolve
ConvTerm(c, i, j) ==
    DMul(DOfInt(At(c.image, ConvImageIndex(c.x, c.y, c.channels, c.ch, c.width,
                                           c.height, i, j))),
         At(c.mat, ConvMatIndex(c.matsize, c.halfmat, i, j)))

RECURSIVE ConvInner(_, _, _, _)
\* the loop over j of convolve, from j on
ConvInner(c, i, j, sum) ==
    IF j > c.halfmat THEN sum
    ELSE The({ConvInner(c, i, j + 1, sum1) :
              sum1 \in {DAdd(sum, ConvTerm(c, i, j))}})

RECURSIVE ConvOuter(_, _, _)
\* the loop over i of convolve, from i on
ConvOuter(c, i, sum) ==
    IF i > c.halfmat THEN sum
    ELSE The({ConvOuter(c, i + 1, sum1) :
              sum1 \in {ConvInner(c, i, -c.halfmat, sum)}})

\* the double convolve returns, when its reads are in bounds
convolve(mat, image, x, y, channels, ch, width, height, matsize, halfmat) ==
    The({ConvOuter(c, -c.halfmat, DZero(0)) :
         c \in {[mat |-> mat, image |-> image, x |-> x, y |-> y,
                 channels |-> channels, ch |-> ch, width |-> width,
                 height |-> height, matsize |-> matsize, halfmat |-> halfmat]}})

ByteRange == 256

\* stbi_uc(d): a value that truncates into 0..255 converts to it; any other
\* conversion is undefined, and yields the low byte of what the build's
\* instruction leaves: on x86-64 the truncated 32-bit integer, INT_MIN when d
\* is out of its range (cvttsd2si); on AArch64 the unsigned 32-bit integer,
\* 0 for a negative d or a NaN and 2^32 - 1 from 2^32 on (fcvtzu)
Narrow(d0, bld) ==
    The({IF bld = "x86_64"
         THEN (IF FitsInt(d) THEN DTrunc(d) % ByteRange ELSE 0)
         ELSE IF DIsNaN(d) \/ d.s = 1 THEN 0
         ELSE IF DIsInf(d) \/ BBitLen(d.m) + d.e > 32 THEN Uint8Max
         ELSE Limb(TruncMag(d), 1) % ByteRange :
         d \in {d0}})
(***************************************************************************)
(* One run of main.                                                        *)
(***************************************************************************)
VARIABLES
    pc,               \* where main is: "start", "load", "mat", "loop", "exit"
    exit_code,        \* the process exit status, -1 while running
    alg, matsize, desired_channels, sobel_type, th_lo, th_hi, custom_mat,
                      \* what args returns
    outfile,          \* the content of the output target
    image, width, height, channels,
                      \* the decoded input
    mat,              \* the kernel, Null when none was built
    image_copy,       \* the output buffer
    owner,            \* the worker that runs each row of the parallel loop
    next,             \* how many of its rows each worker has finished
    writers,          \* per output index, the workers that wrote it
    evalCalls,        \* how many times convolve was called
    ub,               \* a read outside image[] or mat[] has happened
    fn, fargs, fret   \* a single function applied on its own: name, arguments, result

vars == <<pc, exit_code, alg, matsize, desired_channels, sobel_type,
          th_lo, th_hi, custom_mat, outfile, image, width, height, channels,
          mat, image_copy, owner, next, writers, evalCalls, ub, fn, fargs,
          fret>>

argVars == <<alg, matsize, desired_channels, sobel_type, th_lo, th_hi,
             custom_mat>>
imageVars == <<image, width, height, channels>>
loopVars == <<image_copy, owner, next, writers, evalCalls, ub>>
unitVars == <<fn, fargs, fret>>

\* bounds of the inputs
MaxWidth == 2
MaxHeight == 2
MaxChannels == 2
\* the most samples of a decoded image
MaxSamples == 8
MaxMatsizeArg == 3
NumWorkers == 2

Workers == 1..NumWorkers

\* an output sample nothing has written yet (new stbi_uc[...])
Uninit == -1
\* a sample computed from a read outside image[] or mat[]: any byte
Garbage == -2

\* what stands in the output target before the run
Previous == <<"previous content">>

AlgNames == {"none", "gauss", "sobel", "custom", "avg"}

\* the texts given to -x
CustomTexts ==
    { <<>>,
      <<" ">>,
      <<"-", "0", ".", "5">>,
      <<"1", ",", "2", "|", "3", ",", "4">>,
      <<"1", ",", "2", "|", "3", ",", "4", ",", "5">>,
      <<"1", "|", "2">>,
      <<"1", ",", "2", ",", "3">>,
      <<"1", ",", "2", ",", "3", "|", "4", ",", "5", ",", "6", "|",
        "7", ",", "8", ",", "9">> }

\* the pairs given to -t
Bands == {<<10, 200>>, <<100, 100>>, <<200, 10>>, <<0, 256>>}

\* an option is <<>> when absent and <<value>> (for -t, <<lo, hi>>) when given
NoOpt == <<>>

MOpts == {NoOpt} \cup {<<n>> : n \in 1..MaxMatsizeArg}
COpts == {NoOpt} \cup {<<n>> : n \in 0..MaxChannels} \cup {<<5>>}
SOpts == {NoOpt} \cup {<<n>> : n \in 0..3}
TOpts == {NoOpt} \cup Bands
XOpts == {NoOpt} \cup {<<t>> : t \in CustomTexts}
AOpts == {NoOpt} \cup {<<a>> : a \in AlgNames \cup {"bogus"}}

NoOptions == [m |-> NoOpt, c |-> NoOpt, st |-> NoOpt, t |-> NoOpt,
              x |-> NoOpt, a |-> NoOpt]

\* the command lines the model draws: -a with at most one of -c and -t, -m
\* with the algorithms that size a kernel by it, --sobel-type with sobel, -x
\* with gauss, and -a custom with or without -x and with at most a -t
CommandLines ==
    {[NoOptions EXCEPT !.a = a, !.c = c] : a \in AOpts, c \in COpts}
    \cup {[NoOptions EXCEPT !.a = a, !.t = t] : a \in AOpts, t \in TOpts}
    \cup {[NoOptions EXCEPT !.a = a, !.m = m] :
             a \in {<<"gauss">>, <<"avg">>}, m \in MOpts}
    \cup {[NoOptions EXCEPT !.a = <<"sobel">>, !.st = st] : st \in SOpts}
    \cup {[NoOptions EXCEPT !.a = <<"gauss">>, !.x = x] : x \in XOpts}
    \cup {[NoOptions EXCEPT !.a = <<"custom">>, !.x = x, !.t = t] :
             x \in XOpts, t \in TOpts}

\* the sample patterns of the decoded images: sample k is
\* (first + k * step) % 256
PixelPatterns == {<<7, 0>>, <<0, 85>>}

ImageData(pattern, n) ==
    [k \in 1..n |-> (pattern[1] + (k - 1) * pattern[2]) % ByteRange]

DefaultMatsize == 5
MaxChannelsArg == 4
MaxSobelType == 2

\* nothing of main has run
Fresh ==
    /\ exit_code = -1
    /\ alg = "none"
    /\ matsize = DefaultMatsize
    /\ desired_channels = 0
    /\ sobel_type = 0
    /\ th_lo = Uint8Min
    /\ th_hi = Uint8Max
    /\ custom_mat = NoOpt
    /\ outfile = Previous
    /\ image = Null /\ width = 0 /\ height = 0 /\ channels = 0
    /\ mat = Null
    /\ image_copy = <<>>
    /\ owner = <<>>
    /\ next = [w \in Workers |-> 0]
    /\ writers = <<>>
    /\ evalCalls = 0
    /\ ub = FALSE

Init ==
    /\ pc = "start"
    /\ Fresh
    /\ fn = "none" /\ fargs = <<>> /\ fret = <<>>

(***************************************************************************)
(* args (args.hpp)                                                         *)
(***************************************************************************)
\* some option makes the option loop, or the check after it, DIE
ArgsDies(cl) ==
    \/ cl.m # NoOpt /\ cl.m[1] % 2 = 0
    \/ cl.c # NoOpt /\ (cl.c[1] < 1 \/ cl.c[1] > MaxChannelsArg)
    \/ cl.st # NoOpt /\ (cl.st[1] < 0 \/ cl.st[1] > MaxSobelType)
    \/ cl.t # NoOpt /\ (\/ cl.t[1] < Uint8Min \/ cl.t[1] > Uint8Max
                        \/ cl.t[2] < Uint8Min \/ cl.t[2] > Uint8Max
                        \/ cl.t[1] > cl.t[2])
    \/ cl.a # NoOpt /\ cl.a[1] \notin AlgNames
    \/ cl.a = <<"custom">> /\ cl.x = NoOpt

\* the matrix size args returns
ArgsMatsize(cl) ==
    IF cl.x # NoOpt THEN RowCount(cl.x[1])
    ELSE IF cl.m # NoOpt THEN cl.m[1]
    ELSE DefaultMatsize

Exit(code) ==
    /\ pc' = "exit"
    /\ exit_code' = code

\* an option is rejected: DIE prints and calls exit(1)
ArgsDie ==
    /\ pc = "start"
    /\ \E cl \in CommandLines : ArgsDies(cl)
    /\ Exit(1)
    /\ UNCHANGED <<argVars, outfile, imageVars, mat, loopVars, unitVars>>

\* File::open fails on INFILE (cannot be opened, or its type cannot be told)
\* or on OUTFILE: exit(1), the output target not yet opened for writing
OpenFail ==
    /\ pc = "start"
    /\ \E cl \in CommandLines : ~ArgsDies(cl)
    /\ Exit(1)
    /\ UNCHANGED <<argVars, outfile, imageVars, mat, loopVars, unitVars>>

\* args returns; OUTFILE has been opened with mode "w", which empties it
Args ==
    /\ pc = "start"
    /\ \E cl \in CommandLines :
          /\ ~ArgsDies(cl)
          /\ alg' = (IF cl.a = NoOpt THEN "none" ELSE cl.a[1])
          /\ matsize' = ArgsMatsize(cl)
          /\ desired_channels' = (IF cl.c = NoOpt THEN 0 ELSE cl.c[1])
          /\ sobel_type' = (IF cl.st = NoOpt THEN 0 ELSE cl.st[1])
          /\ th_lo' = (IF cl.t = NoOpt THEN Uint8Min ELSE cl.t[1])
          /\ th_hi' = (IF cl.t = NoOpt THEN Uint8Max ELSE cl.t[2])
          /\ custom_mat' = cl.x
    /\ outfile' = <<>>
    /\ pc' = "load"
    /\ UNCHANGED <<exit_code, imageVars, mat, loopVars, unitVars>>

(***************************************************************************)
(* main (main.cpp)                                                         *)
(***************************************************************************)
\* stbi_load_from_file returns no image
LoadFail ==
    /\ pc = "load"
    /\ Exit(1)
    /\ UNCHANGED <<argVars, outfile, imageVars, mat, loopVars, unitVars>>

\* stbi_load_from_file decodes an image; with -c the decoder converts it to
\* the desired channel count
Load ==
    /\ pc = "load"
    /\ \E w \in 1..MaxWidth, h \in 1..MaxHeight, image_channels \in 1..MaxChannels,
          pattern \in PixelPatterns :
          \E c \in {IF desired_channels # 0 THEN desired_channels
                    ELSE image_channels} :
              /\ w * h * c <= MaxSamples
              /\ width' = w
              /\ height' = h
              /\ channels' = c
              /\ image' = ImageData(pattern, w * h * c)
    /\ pc' = "mat"
    /\ UNCHANGED <<exit_code, argVars, outfile, mat, loopVars, unitVars>>

\* the kernels of the runs the model draws, each computed once
KernelSizes == 1..Max(MaxMatsizeArg, DefaultMatsize)
GaussMats == [n \in KernelSizes |-> makeGaussMat(n, DefaultSigma)]
AvgMats == [n \in KernelSizes |-> makeAvgMat(n)]
CustomMats ==
    [t \in CustomTexts |->
        [bld \in Builds |-> makeCustomMat(t, RowCount(t), bld)]]

\* the switch on alg without its cases for Sobel and None, which then reach
\* the builder above them
BuiltMat_FallThrough(bld) ==
    IF alg = "gauss" THEN GaussMats[matsize]
    ELSE IF alg = "custom" THEN CustomMats[custom_mat[1]][bld]
    ELSE AvgMats[matsize]

\* the kernel the switch on alg builds, on the build bld
BuiltMat(bld) ==
    IF alg = "gauss" THEN GaussMats[matsize]
    ELSE IF alg = "avg" THEN AvgMats[matsize]
    ELSE IF alg = "custom" THEN CustomMats[custom_mat[1]][bld]
    ELSE Null

\* the custom matrix does not parse: main returns 1
MakeMatFail ==
    /\ pc = "mat"
    /\ alg = "custom"
    /\ \E bld \in Builds : BuiltMat(bld) = Null
    /\ Exit(1)
    /\ UNCHANGED <<argVars, outfile, imageVars, mat, loopVars, unitVars>>


\* the ways to hand the rows 0 .. h - 1 to the workers, up to renaming the
\* workers: a row goes to a worker that has a row already or to the first
\* worker that has none
Schedules(h) ==
    {f \in [1..h -> Workers] :
        \A y \in 1..h : \A w \in 1..(f[y] - 1) : \E z \in 1..(y - 1) : f[z] = w}

\* the kernel is built, image_copy is allocated and the rows of the parallel
\* loop are handed to the workers
MakeMat ==
    /\ pc = "mat"
    /\ \E bld \in Builds :
          /\ ~(alg = "custom" /\ BuiltMat(bld) = Null)
          /\ mat' = BuiltMat(bld)
    /\ image_copy' = [k \in 1..(width * height * channels) |-> Uninit]
    /\ writers' = [k \in 1..(width * height * channels) |-> {}]
    /\ owner' \in Schedules(height)
    /\ next' = [w \in Workers |-> 0]
    /\ pc' = "loop"
    /\ UNCHANGED <<exit_code, argVars, outfile, imageVars, evalCalls,
                   ub, unitVars>>

\* the rows of worker w, ascending
RowsOf(w) == {y \in 0..(height - 1) : owner[y + 1] = w}

NthRow(w, n) ==
    CHOOSE y \in RowsOf(w) : Cardinality({z \in RowsOf(w) : z < y}) = n

\* the row worker w runs next
Current(w) == NthRow(w, next[w])

HasWork(w) == next[w] < Cardinality(RowsOf(w))

\* the iterations (x, ch) of the two inner loops, in order: x and ch of the
\* n-th one (n from 0)
RowLength == width * channels
XOf(n) == (n \div channels) * channels
ChOf(n) == n % channels

\* the index with a row taken to be w samples long
OutIndex_RowOfWidth(y, x, ch, w, c) == y * w + x + ch

\* the index of px in image_copy, and of the sample the None path copies
OutIndex(y, x, ch, w, c) == y * w * c + x + ch

UsesKernel == alg \in {"gauss", "avg", "custom"}

halfmat == matsize \div 2

\* the reads of the iteration stay inside image[] and the kernel
ReadsInBounds(x, y, ch) ==
    IF UsesKernel
    THEN ConvInBounds(mat, image, x, y, channels, ch, width, height, matsize,
                      halfmat)
    ELSE IF alg = "sobel"
    THEN ConvInBounds(SobelMat(sobelX, sobel_type), image, x, y, channels, ch,
                      width, height, 3, 1)
    ELSE TRUE

\* the double the iteration computes before it is narrowed
Computed(x, y, ch) ==
    IF alg = "sobel"
    THEN The({DSqrt(DAdd(DMul(g_x, g_x), DMul(g_y, g_y))) :
              g_x \in {convolve(SobelMat(sobelX, sobel_type), image, x, y,
                                channels, ch, width, height, 3, 1)},
              g_y \in {convolve(SobelMat(sobelY, sobel_type), image, x, y,
                                channels, ch, width, height, 3, 1)}})
    ELSE convolve(mat, image, x, y, channels, ch, width, height, matsize,
                  halfmat)

\* the byte the iteration leaves in px, on the build bld
PixelOut(x, y, ch, bld) ==
    IF alg = "none"
    THEN threshold(At(image, OutIndex(y, x, ch, width, channels)), th_lo, th_hi)
    ELSE IF ~ReadsInBounds(x, y, ch) THEN Garbage
    ELSE threshold(Narrow(Computed(x, y, ch), bld), th_lo, th_hi)

\* the bytes the iterations of row y store, in order
RowOut(y, bld) ==
    Listed([n \in 1..RowLength |-> PixelOut(XOf(n - 1), y, ChOf(n - 1), bld)])

RowReadsInBounds(y) ==
    \A n \in 0..(RowLength - 1) : ReadsInBounds(XOf(n), y, ChOf(n))

\* the iterations of row y that store to index k (from 0) of image_copy
StoresTo(y, k) ==
    {n \in 0..(RowLength - 1) :
        OutIndex(y, XOf(n), ChOf(n), width, channels) = k}

\* the later of two iterations
Last(S) == CHOOSE n \in S : \A m \in S : m <= n

CallsPerSample == IF alg = "sobel" THEN 2 ELSE IF UsesKernel THEN 1 ELSE 0

\* one iteration of the parallel loop, the row y = Current(w), run by worker w
Row(w) ==
    /\ pc = "loop"
    /\ HasWork(w)
    /\ \E y \in {Current(w)} :
          /\ \E out \in {RowOut(y, bld) : bld \in Builds} :
                image_copy' =
                    [k \in DOMAIN image_copy |->
                        IF StoresTo(y, k - 1) = {} THEN image_copy[k]
                        ELSE out[Last(StoresTo(y, k - 1)) + 1]]
          /\ writers' =
                [k \in DOMAIN writers |->
                    IF StoresTo(y, k - 1) = {} THEN writers[k]
                    ELSE writers[k] \cup {w}]
          /\ ub' = (ub \/ ~RowReadsInBounds(y))
    /\ evalCalls' = evalCalls + RowLength * CallsPerSample
    /\ next' = [next EXCEPT ![w] = @ + 1]
    /\ UNCHANGED <<pc, exit_code, argVars, outfile, imageVars, mat,
                   owner, unitVars>>

\* a row with a read outside image[] or the kernel may also fault
RowFault(w) ==
    /\ pc = "loop"
    /\ HasWork(w)
    /\ ~RowReadsInBounds(Current(w))
    /\ ub' = TRUE
    /\ evalCalls' = evalCalls + 1
    /\ pc' = "fault"
    /\ UNCHANGED <<exit_code, argVars, outfile, imageVars, mat,
                   image_copy, owner, next, writers, unitVars>>

\* the loop is left as soon as one worker has no row left: no barrier
AllDone_NoBarrier == \E w \in Workers : ~HasWork(w)

\* the end of the parallel region: every worker has finished its rows
AllDone == \A w \in Workers : ~HasWork(w)

\* after the loop, writeImage encodes image_copy into the output target
Write ==
    /\ pc = "loop"
    /\ AllDone
    /\ outfile' = image_copy
    /\ pc' = "done"
    /\ exit_code' = 0
    /\ UNCHANGED <<argVars, imageVars, mat, loopVars, unitVars>>

\* writeImage fails: main returns 1
WriteFail ==
    /\ pc = "loop"
    /\ AllDone
    /\ Exit(1)
    /\ UNCHANGED <<argVars, outfile, imageVars, mat, loopVars, unitVars>>

Next ==
    \/ ArgsDie
    \/ OpenFail
    \/ Args
    \/ LoadFail
    \/ Load
    \/ MakeMatFail
    \/ MakeMat
    \/ \E w \in Workers : Row(w)
    \/ \E w \in Workers : RowFault(w)
    \/ Write
    \/ WriteFail

Spec == Init /\ [][Next]_vars

(***************************************************************************)
(* threshold, reflect and makeCustomMat applied on their own: the inputs   *)
(* are drawn in the initial state and one action applies the function.     *)
(***************************************************************************)
\* how far around each pivot sample the inputs of threshold are drawn
NearBy == 1
\* the extents reflect is applied to, and how far outside [-top, 2 * top) the
\* coordinates are drawn
MaxTop == 5
Beyond == 2
\* the length of the texts enumerated for makeCustomMat
MaxTextLen == 3

Pivots == {Uint8Min, 5, 10, 100, 200, 250, Uint8Max}

Samples ==
    {v \in Uint8Min..Uint8Max : \E b \in Pivots : Abs(v - b) <= NearBy}

\* <<x, lo, hi>> with the band as args accepts it
ThresholdInputs ==
    {<<v, lo, hi>> : v \in Samples, lo \in Samples, hi \in Samples}
        \ {<<v, lo, hi>> \in Samples \X Samples \X Samples : lo > hi}

\* <<x, top>>
ReflectInputs ==
    UNION {{<<c, top>> : c \in (-top - Beyond)..(2 * top + Beyond - 1)} :
              top \in 1..MaxTop}

TextChars == {"0", "1", "5", ".", "-", ",", "|", " "}

ShortTexts == UNION {[1..n -> TextChars] : n \in 0..MaxTextLen}

LongTexts ==
    { <<"0", ".", "5", ",", "0", ".", "5", "|", "0", ".", "5", ",", "0", ".", "5">>,
      <<"1", ",", "2", "|", "3", ",", "4", "|">>,
      <<"1", ",", "2", "|", "3", ",", "4", "|", "5", ",", "6">>,
      <<"1", ",", ",", "3", "|", "4", ",", "5", ",", "6", "|",
        "7", ",", "8", ",", "9">>,
      <<"1", ".", "5", ",", "0", ",", "0", ".", "5", "|",
        "0", ",", "-", "2", ",", "0", "|", "0", ",", "0", ",", "0">>,
      <<"1", ",", "0", ",", "-", "1", "|", "2", ",", "0", ",", "-", "2", "|",
        "1", ",", "0", ",", "-", "1">>,
      <<"0", ".", "1", ",", "0", ".", "2", ",", "0", ".", "3", "|",
        "0", ",", "0", ",", "0", "|",
        "-", "0", ".", "1", ",", "-", "0", ".", "2", ",", "-", "0", ".", "3">> }

\* <<custom_mat>>; the size is the one args derives from the text
MatTexts == ShortTexts \cup LongTexts \cup CustomTexts

UnitInit ==
    /\ pc = "call"
    /\ Fresh
    /\ \/ fn = "threshold" /\ fargs \in ThresholdInputs
       \/ fn = "reflect" /\ fargs \in ReflectInputs
       \/ fn = "makeCustomMat" /\ fargs \in {<<t>> : t \in MatTexts}
    /\ fret = <<>>

\* the call returns v
Return(v) ==
    /\ fret' = <<v>>
    /\ pc' = "return"
    /\ UNCHANGED <<exit_code, argVars, outfile, imageVars, mat, loopVars, fn,
                   fargs>>

CallThreshold ==
    /\ pc = "call" /\ fn = "threshold"
    /\ Return(threshold(fargs[1], fargs[2], fargs[3]))

CallReflect ==
    /\ pc = "call" /\ fn = "reflect"
    /\ Return(reflect(fargs[1], fargs[2]))

CallMakeCustomMat ==
    /\ pc = "call" /\ fn = "makeCustomMat"
    /\ \E bld \in Builds :
          Return(makeCustomMat(fargs[1], RowCount(fargs[1]), bld))

UnitNext ==
    \/ CallThreshold
    \/ CallReflect
    \/ CallMakeCustomMat

UnitSpec == UnitInit /\ [][UnitNext]_vars

(***************************************************************************)
(* Properties.                                                             *)
(***************************************************************************)
\* the iterations (y, x, ch) of the pixel loop
Iterations ==
    {<<y, xp * channels, ch>> :
        y \in 0..(height - 1), xp \in 0..(width - 1), ch \in 0..(channels - 1)}

Lo == DOfInt(th_lo)
Hi == DOfInt(th_hi)

\* C1: on the Gauss, Avg, Custom and Sobel paths every byte the loop has
\* stored is the threshold of the computed double: 0 when the double is at
\* most lo, 255 when it is at least hi (and above lo), whatever its size.
C1_ThresholdOnComputed ==
    (pc \in {"loop", "done"} /\ alg # "none") =>
        \A it \in Iterations :
            \A px \in {At(image_copy,
                          OutIndex(it[1], it[2], it[3], width, channels))} :
                (px \notin {Uninit, Garbage}) =>
                    \A d \in {Computed(it[2], it[1], it[3])} :
                        /\ DLeq(d, Lo) => px = Uint8Min
                        /\ (DLeq(Hi, d) /\ ~DLeq(d, Lo)) => px = Uint8Max

ThresholdReturned == fn = "threshold" /\ pc = "return"

\* C2 (as amended): for a band 0 <= lo <= hi <= 255, threshold(v, lo, hi) is
\* 0 when v <= lo, 255 when v >= hi and v > lo, and v when lo < v < hi; with
\* the band (0, 255) it is v.
C2_ThresholdClip ==
    ThresholdReturned =>
        LET v  == fargs[1]
            lo == fargs[2]
            hi == fargs[3]
            r  == fret[1]
        IN  /\ v <= lo => r = 0
            /\ (v >= hi /\ v > lo) => r = 255
            /\ (lo < v /\ v < hi) => r = v
            /\ (lo = 0 /\ hi = 255) => r = v

\* C2 as stated: 0 when v <= lo and 255 when v >= hi, also when lo = hi = v.
C2_AsStated ==
    ThresholdReturned =>
        LET v  == fargs[1]
            lo == fargs[2]
            hi == fargs[3]
            r  == fret[1]
        IN  /\ v <= lo => r = 0
            /\ v >= hi => r = 255
            /\ (lo < v /\ v < hi) => r = v
            /\ (lo = 0 /\ hi = 255) => r = v

\* threshold has returned 0 for a sample equal to both bounds
C2_Witness ==
    /\ ThresholdReturned
    /\ fargs = <<100, 100, 100>>
    /\ fret = <<0>>

ReflectReturned == fn = "reflect" /\ pc = "return"

\* C3: for every extent top >= 1 and every coordinate c with
\* -top <= c < 2 * top, reflect(c, top) lies in [0, top).
C3_ReflectInRange ==
    ReflectReturned =>
        LET c   == fargs[1]
            top == fargs[2]
        IN  (top >= 1 /\ -top <= c /\ c < 2 * top) =>
                (0 <= fret[1] /\ fret[1] < top)

MatReturned == fn = "makeCustomMat" /\ pc = "return"

\* the cells strtod reads from an accepted text
Cells(text) ==
    The({r.out : r \in {ParseCells(text, RowCount(text), 0, 1, <<>>)}})

\* the least exponent of the cells from k on, e when all of them are zero
RECURSIVE LeastExp(_, _, _)
LeastExp(cells, k, e) ==
    IF k > Len(cells) THEN e
    ELSE IF DIsZero(cells[k]) THEN LeastExp(cells, k + 1, e)
    ELSE The({LeastExp(cells, k + 1, e1) : e1 \in {Min(e, cells[k].e)}})

\* acc + c, exactly: acc is [s, m], the number (-1)^s * m * 2^e
ExactAdd(acc, c, e) ==
    IF DIsZero(c) THEN acc
    ELSE The({IF acc.s = c.s THEN [s |-> c.s, m |-> BAdd(acc.m, M)]
              ELSE IF BCmp(acc.m, M) = 0 THEN [s |-> 0, m |-> <<>>]
              ELSE IF BCmp(acc.m, M) > 0 THEN [s |-> acc.s, m |-> BSub(acc.m, M)]
              ELSE [s |-> c.s, m |-> BSub(M, acc.m)] :
              M \in {BShl(c.m, c.e - e)}})

\* acc + cells[k] + ..., exactly
RECURSIVE ExactSumFrom(_, _, _, _)
ExactSumFrom(cells, k, e, acc) ==
    IF k > Len(cells) THEN acc
    ELSE The({ExactSumFrom(cells, k + 1, e, acc1) :
              acc1 \in {ExactAdd(acc, cells[k], e)}})

\* the sum of the cells as a real number, rounded to a double once
ExactSum(cells) ==
    The({The({RoundPack(sum.s, sum.m, e, FALSE) :
              sum \in {ExactSumFrom(cells, 1, e, [s |-> 0, m |-> <<>>])}}) :
         e \in {LeastExp(cells, 1, 0)}})

\* C4: an accepted text whose cells sum to s # 0 comes back with every cell
\* divided by s.
C4_NormalizedBySum ==
    (MatReturned /\ fret[1] # Null) =>
        \A cells \in {Cells(fargs[1])} :
            \A s \in {ExactSum(cells)} :
                ~DIsZero(s) =>
                    fret[1] = Listed([k \in 1..Len(cells) |-> DDiv(cells[k], s)])

\* C5: an accepted text whose cells sum to exactly 0 comes back with every
\* cell as strtod read it.
C5_ZeroSumUnchanged ==
    (MatReturned /\ fret[1] # Null) =>
        \A cells \in {Cells(fargs[1])} :
            DIsZero(ExactSum(cells)) => fret[1] = cells

Blank(text) == \A p \in 1..Len(text) : text[p] = " "

CustomRun == alg = "custom" /\ custom_mat # NoOpt

\* C6: a run of -a custom whose text is empty or only spaces builds no kernel,
\* filters no pixel and can only end with a non-zero exit.
C6_BlankTextFails ==
    (CustomRun /\ Blank(custom_mat[1])) =>
        /\ mat = Null
        /\ evalCalls = 0
        /\ pc \in {"load", "mat", "exit"}
        /\ pc = "exit" => exit_code # 0

\* the row (from 1) that position p of the text lies in
RowOfChar(text, p) ==
    1 + Cardinality({q \in 1..(p - 1) : text[q] = "|"})

CellsInRow(text, r) ==
    1 + Cardinality({p \in 1..Len(text) : text[p] = "," /\ RowOfChar(text, p) = r})

\* some row has a number of cells other than the number of rows
RowMismatch(text) ==
    \E r \in 1..RowCount(text) : CellsInRow(text, r) # RowCount(text)

\* C7: a run of -a custom whose text has a row with a number of cells other
\* than the number of rows builds no kernel, never calls convolve and can
\* only end with exit code 1.
C7_RowMismatchRejected ==
    (CustomRun /\ RowMismatch(custom_mat[1])) =>
        /\ mat = Null
        /\ evalCalls = 0
        /\ pc \in {"load", "mat", "exit"}
        /\ pc = "exit" => exit_code = 1

\* main has returned 1 for "1,2|3,4,5" after the image was loaded
C7_Witness ==
    /\ CustomRun
    /\ custom_mat[1] = <<"1", ",", "2", "|", "3", ",", "4", ",", "5">>
    /\ RowMismatch(custom_mat[1])
    /\ image # Null
    /\ pc = "exit" /\ exit_code = 1

\* C8: a run of -a custom whose text has an even number of rows never reaches
\* the pixel loop, so convolve is never called with an even size.
C8_EvenRowsFatal ==
    (CustomRun /\ RowCount(custom_mat[1]) % 2 = 0) =>
        /\ evalCalls = 0
        /\ pc \in {"load", "mat", "exit"}
        /\ pc = "exit" => exit_code # 0

NoneRun == alg = "none" /\ th_lo = Uint8Min /\ th_hi = Uint8Max

\* C9: with algorithm None and the band (0, 255) no kernel is built, convolve
\* is never called, every byte the loop has stored is the input byte at the
\* same index, and the written output is the input buffer.
C9_NoneCopies ==
    (NoneRun /\ pc \in {"loop", "done"}) =>
        /\ mat = Null
        /\ evalCalls = 0
        /\ \A k \in DOMAIN image_copy : image_copy[k] \in {Uninit, image[k]}
        /\ pc = "done" => (image_copy = image /\ outfile = image)

\* a None run over an image of several rows, columns and channels and of
\* distinct samples has written its output
C9_Witness ==
    /\ NoneRun
    /\ pc = "done"
    /\ channels > 1 /\ width > 1 /\ height > 1
    /\ image[1] # image[2]
    /\ outfile = image

\* the row that index idx of the output buffer belongs to
RowOfIndex(idx) == idx \div (width * channels)

DisjointWrites ==
    \A k \in DOMAIN writers :
        writers[k] \subseteq {owner[RowOfIndex(k - 1) + 1]}

\* C10: every step leaves each output index written by no worker other than
\* the owner of its row, and no step of the loop changes the input buffer or
\* the kernel.
C10_DisjointWrites ==
    [][/\ DisjointWrites'
       /\ pc = "loop" => (image' = image /\ mat' = mat)]_vars

\* two workers have each written samples of their own rows
C10_Witness ==
    /\ pc \in {"loop", "done"}
    /\ \E k1, k2 \in DOMAIN writers :
          /\ writers[k1] = {1}
          /\ writers[k2] = {2}
    /\ \A w \in {1, 2} : ~HasWork(w)

\* the position of the n-th iteration (from 0) of the loop nest run in order
SeqRow(n) == n \div RowLength
SeqX(n) == XOf(n % RowLength)
SeqCh(n) == ChOf(n % RowLength)

\* the output buffer after the iterations from n on have run one after the
\* other, in the order of the loop nest, on the build bld
RECURSIVE SequentialFrom(_, _, _)
SequentialFrom(buf, n, bld) ==
    IF n >= height * RowLength THEN buf
    ELSE The({SequentialFrom(buf1, n + 1, bld) :
              buf1 \in {[buf EXCEPT ![OutIndex(SeqRow(n), SeqX(n), SeqCh(n),
                                               width, channels) + 1] =
                                        PixelOut(SeqX(n), SeqRow(n), SeqCh(n),
                                                 bld)]}})

Sequential(bld) ==
    SequentialFrom([k \in 1..(width * height * channels) |-> Uninit], 0, bld)

\* the samples of row y in buf
RowSlice(buf, y) == SubSeq(buf, y * RowLength + 1, (y + 1) * RowLength)

\* C11: whatever the partition of the rows and the interleaving of the
\* workers, the buffer handed to the encoder has every index written and
\* is, row by row, the buffer the loop nest run in order produces (on one of
\* the builds, where a narrowing is undefined), and it is what is written.
C11_OrderImmaterial ==
    (pc = "done") =>
        /\ outfile = image_copy
        /\ \A k \in DOMAIN image_copy : image_copy[k] # Uninit
        /\ \A seqs \in {{Sequential(bld) : bld \in Builds}} :
              \A y \in 0..(height - 1) :
                  \E seq \in seqs : RowSlice(image_copy, y) = RowSlice(seq, y)

\* a filtered image of two rows, each run by its own worker, has been written
C11_Witness ==
    /\ pc = "done"
    /\ alg = "avg" /\ matsize = 3
    /\ height = 2 /\ width = 2
    /\ owner = <<1, 2>>
    /\ image[1] # image[2]
    /\ outfile = image_copy
    /\ \A k \in DOMAIN image_copy : image_copy[k] \notin {Uninit, Garbage}

\* C12: a run either ends with the whole filtered image in the output target
\* or fails with the output target as it was before the run.
C12_NoPartialFailure ==
    /\ pc = "done" =>
          /\ exit_code = 0
          /\ outfile = image_copy
          /\ \A k \in DOMAIN image_copy : image_copy[k] # Uninit
    /\ pc = "exit" =>
          /\ exit_code # 0
          /\ outfile = Previous

(***************************************************************************)
(* One iteration of the loop body, one call of convolve and one call of    *)
(* makeGaussMat, on their own: the run and the target sample, or the       *)
(* arguments of the call, are drawn in the initial state and one action    *)
(* applies the code.                                                       *)
(***************************************************************************)
\* the extents of the images drawn
MaxEvalWidth == 3
MaxEvalHeight == 3
\* the channel counts drawn for the calls of convolve
MaxEvalChannels == 3

\* the sample patterns drawn: the two of the whole runs and two more flat ones
EvalPatterns == PixelPatterns \cup {<<100, 0>>, <<255, 0>>}

\* the command lines of the runs drawn: an algorithm with a kernel, the
\* default band and the channels of the image
EvalCommandLines ==
    {cl \in CommandLines :
        /\ ~ArgsDies(cl)
        /\ cl.a \notin {NoOpt, <<"none">>}
        /\ cl.t = NoOpt
        /\ cl.c = NoOpt}

\* <<mat, matsize, halfmat>> of the calls of convolve drawn
EvalKernels ==
    {<<AvgMats[n], n, n \div 2>> : n \in {1, 3}}
    \cup {<<GaussMats[DefaultMatsize], DefaultMatsize, DefaultMatsize \div 2>>}
    \cup {<<SobelMat(sobelX, 0), 3, 1>>}
    \cup {<<CustomMats[t][bld], RowCount(t), RowCount(t) \div 2>> :
             t \in {u \in CustomTexts :
                        \A b \in Builds : CustomMats[u][b] # Null},
             bld \in Builds}

\* the iterations <<x, y, ch>> of the loop nest over a w x h image of c channels
Targets(w, h, c) ==
    {<<xp * c, y, ch>> : xp \in 0..(w - 1), y \in 0..(h - 1), ch \in 0..(c - 1)}

\* a run has reached the loop, and one iteration <<x, y, ch>> is to be run
PixelInit ==
    /\ fn = "pixel"
    /\ \E cl \in EvalCommandLines :
          /\ alg = cl.a[1]
          /\ matsize = ArgsMatsize(cl)
          /\ sobel_type = (IF cl.st = NoOpt THEN 0 ELSE cl.st[1])
          /\ custom_mat = cl.x
    /\ desired_channels = 0
    /\ th_lo = Uint8Min
    /\ th_hi = Uint8Max
    /\ \E w \in 1..MaxEvalWidth, h \in 1..MaxEvalHeight, c \in 1..MaxChannels,
          pattern \in EvalPatterns :
          /\ width = w
          /\ height = h
          /\ channels = c
          /\ image = ImageData(pattern, w * h * c)
          /\ fargs \in Targets(w, h, c)
    /\ \E bld \in Builds :
          /\ ~(alg = "custom" /\ BuiltMat(bld) = Null)
          /\ mat = BuiltMat(bld)

\* convolve is to be called with
\* <<mat, image, x, y, channels, ch, width, height, matsize, halfmat>>
ConvolveInit ==
    /\ fn = "convolve"
    /\ alg = "none"
    /\ matsize = DefaultMatsize
    /\ sobel_type = 0
    /\ custom_mat = NoOpt
    /\ desired_channels = 0
    /\ th_lo = Uint8Min
    /\ th_hi = Uint8Max
    /\ image = Null /\ width = 0 /\ height = 0 /\ channels = 0
    /\ mat = Null
    /\ \E w \in 1..MaxEvalWidth, h \in 1..MaxEvalHeight,
          c \in 1..MaxEvalChannels, k \in EvalKernels :
          \E t \in Targets(w, h, c) :
              fargs = <<k[1], ImageData(<<0, 85>>, w * h * c), t[1], t[2], c,
                        t[3], w, h, k[2], k[3]>>

\* the doubles -s gives for 0.5, 3, 2^-10, 2^600 and 2^-600
SigmaHalf == DDiv(DOne, DTwo)
SigmaThree == DOfInt(3)
SigmaSmall == [s |-> 0, m |-> <<0, 0, 0, 128>>, e |-> -62]
SigmaHuge == [s |-> 0, m |-> <<0, 0, 0, 128>>, e |-> 548]
SigmaTiny == [s |-> 0, m |-> <<0, 0, 0, 128>>, e |-> -652]

Sigmas ==
    {DefaultSigma, SigmaHalf, SigmaThree, SigmaSmall, SigmaHuge, SigmaTiny}

\* makeGaussMat is to be called with <<size, sigma>>, size odd
GaussInit ==
    /\ fn = "makeGaussMat"
    /\ alg = "gauss"
    /\ matsize = DefaultMatsize
    /\ sobel_type = 0
    /\ custom_mat = NoOpt
    /\ desired_channels = 0
    /\ th_lo = Uint8Min
    /\ th_hi = Uint8Max
    /\ image = Null /\ width = 0 /\ height = 0 /\ channels = 0
    /\ mat = Null
    /\ fargs \in {<<n, sigma>> : n \in {k \in KernelSizes : k % 2 = 1},
                                 sigma \in Sigmas}

EvalInit ==
    /\ pc = "call"
    /\ exit_code = -1
    /\ outfile = Previous
    /\ image_copy = <<>>
    /\ owner = <<>>
    /\ next = [w \in Workers |-> 0]
    /\ writers = <<>>
    /\ evalCalls = 0
    /\ ub = FALSE
    /\ fret = <<>>
    /\ (PixelInit \/ ConvolveInit \/ GaussInit)

\* the body of the loop for the iteration fargs = <<x, y, ch>>: the byte left
\* in px
CallPixel ==
    /\ pc = "call" /\ fn = "pixel"
    /\ \E bld \in Builds :
          fret' = <<PixelOut(fargs[1], fargs[2], fargs[3], bld)>>
    /\ ub' = ~ReadsInBounds(fargs[1], fargs[2], fargs[3])
    /\ evalCalls' = evalCalls + CallsPerSample
    /\ pc' = "return"
    /\ UNCHANGED <<exit_code, argVars, outfile, imageVars, mat, image_copy,
                   owner, next, writers, fn, fargs>>

\* the reads of the call with the arguments a stay inside image[] and mat[]
CallInBounds(a) ==
    ConvInBounds(a[1], a[2], a[3], a[4], a[5], a[6], a[7], a[8], a[9], a[10])

\* one call of convolve; a read outside the arrays makes the sum any double
CallConvolve ==
    /\ pc = "call" /\ fn = "convolve"
    /\ fret' = (IF CallInBounds(fargs)
                THEN <<convolve(fargs[1], fargs[2], fargs[3], fargs[4], fargs[5],
                                fargs[6], fargs[7], fargs[8], fargs[9],
                                fargs[10])>>
                ELSE <<Garbage>>)
    /\ ub' = ~CallInBounds(fargs)
    /\ evalCalls' = evalCalls + 1
    /\ pc' = "return"
    /\ UNCHANGED <<exit_code, argVars, outfile, imageVars, mat, image_copy,
                   owner, next, writers, fn, fargs>>

\* one call of makeGaussMat: the kernel is left in mat
CallMakeGaussMat ==
    /\ pc = "call" /\ fn = "makeGaussMat"
    /\ \E out \in {makeGaussMat(fargs[1], fargs[2])} :
          /\ fret' = <<out>>
          /\ mat' = out
    /\ pc' = "return"
    /\ UNCHANGED <<exit_code, argVars, outfile, imageVars, loopVars, fn, fargs>>

\* a read outside the arrays may also fault
EvalFault ==
    /\ pc = "call"
    /\ \/ fn = "pixel" /\ ~ReadsInBounds(fargs[1], fargs[2], fargs[3])
       \/ fn = "convolve" /\ ~CallInBounds(fargs)
    /\ ub' = TRUE
    /\ evalCalls' = evalCalls + 1
    /\ pc' = "fault"
    /\ UNCHANGED <<exit_code, argVars, outfile, imageVars, mat, image_copy,
                   owner, next, writers, unitVars>>

EvalNext ==
    \/ CallPixel
    \/ CallConvolve
    \/ CallMakeGaussMat
    \/ EvalFault

EvalSpec == EvalInit /\ [][EvalNext]_vars

PixelReturned == fn = "pixel" /\ pc = "return"

\* every sample of the image is the same
Flat == \A k \in DOMAIN image : image[k] = image[1]

\* C13: with avg, one channel and the band (0, 255), an iteration whose reads
\* stay inside a flat image of value v leaves v in the output sample.
C13_AvgOfConstant ==
    (/\ PixelReturned
     /\ alg = "avg"
     /\ channels = 1
     /\ Flat
     /\ ReadsInBounds(fargs[1], fargs[2], fargs[3])) =>
        fret[1] = image[1]

\* the two gradient sums of the Sobel path for the iteration <<x, y, ch>>
GradientX(x, y, ch) ==
    convolve(SobelMat(sobelX, sobel_type), image, x, y, channels, ch, width,
             height, 3, 1)
GradientY(x, y, ch) ==
    convolve(SobelMat(sobelY, sobel_type), image, x, y, channels, ch, width,
             height, 3, 1)

\* C14: with Sobel of any type over a flat image, every iteration reads
\* inside the image, has both gradient sums 0 and leaves 0 in the output
\* sample.
C14_SobelOfFlatIsZero ==
    (PixelReturned /\ alg = "sobel" /\ Flat) =>
        /\ ReadsInBounds(fargs[1], fargs[2], fargs[3])
        /\ DIsZero(GradientX(fargs[1], fargs[2], fargs[3]))
        /\ DIsZero(GradientY(fargs[1], fargs[2], fargs[3]))
        /\ fret[1] = 0

GaussReturned == fn = "makeGaussMat" /\ pc = "return"

\* the tolerance is one part in this many
ToleranceParts == BPow10(9)

\* |(-1)^s * m * 2^e - 1| <= 1e-9, for e <= 0
NearOne(s, m, e) ==
    /\ s = 0
    /\ \A a \in {BMul(m, ToleranceParts)}, b \in {BShl(ToleranceParts, -e)} :
          BCmp(IF BCmp(a, b) >= 0 THEN BSub(a, b) ELSE BSub(b, a),
               BShl(<<1>>, -e)) <= 0

\* the cells are numbers whose sum, as a real number, is 1 within 1e-9
SumsToOne(cells) ==
    /\ \A k \in 1..Len(cells) : DIsFinite(cells[k])
    /\ \A e \in {LeastExp(cells, 1, 0)} :
          \A sum \in {ExactSumFrom(cells, 1, e, [s |-> 0, m |-> <<>>])} :
              NearOne(sum.s, sum.m, e)

\* C15: for every odd size and every sigma > 0 the weights makeGaussMat
\* returns sum to 1 within 1e-9.
C15_GaussSumsToOne ==
    GaussReturned => SumsToOne(fret[1])

ConvolveCalled == fn = "convolve" /\ pc \in {"return", "fault"}

\* C16: for every call of convolve on an image of at least one row, column
\* and channel, and every offset (i, j) of its window, the reflected row lies
\* in [0, height), the reflected column in [0, width * channels) and the
\* index read in [0, width * height * channels).
C16_ImageReadsInBounds ==
    ConvolveCalled =>
        \A image_ \in {fargs[2]}, x \in {fargs[3]}, y \in {fargs[4]},
           c \in {fargs[5]}, ch \in {fargs[6]}, w \in {fargs[7]},
           h \in {fargs[8]}, half \in {fargs[10]} :
            \A i \in (-half)..half, j \in (-half)..half :
                \A ycoord \in {reflect(y + j, h)},
                   xcoord \in {reflect(x + (i * c) + ch, w * c)} :
                    /\ 0 <= ycoord /\ ycoord < h
                    /\ 0 <= xcoord /\ xcoord < w * c
                    /\ 0 <= ycoord * w * c + xcoord
                    /\ ycoord * w * c + xcoord < w * h * c

\* the text without the '|' that may close its last row
Body(text) ==
    IF Len(text) > 0 /\ text[Len(text)] = "|"
    THEN SubSeq(text, 1, Len(text) - 1)
    ELSE text

Separators(body) == {p \in 1..Len(body) : body[p] \in {",", "|"}}

\* the cell of the body that starts at position a: up to the next separator
CellFrom(body, a) ==
    SubSeq(body, a,
           Min(Len(body) + 1,
               CHOOSE p \in Separators(body) \cup {Len(body) + 1} :
                   /\ p >= a
                   /\ \A q \in Separators(body) : q >= a => p <= q) - 1)

CellTexts(body) ==
    {CellFrom(body, a) : a \in {1} \cup {p + 1 : p \in Separators(body)}}

\* a decimal number: spaces, an optional sign, then digits with at most one
\* '.' among them and at least one digit
IsNumber(cell) ==
    \E a \in 0..Len(cell), b \in {0, 1} :
        /\ a + b <= Len(cell)
        /\ \A p \in 1..a : cell[p] = " "
        /\ b = 1 => cell[a + 1] \in {"-", "+"}
        /\ \A p \in (a + b + 1)..Len(cell) : IsDigit(cell[p]) \/ cell[p] = "."
        /\ Cardinality({p \in (a + b + 1)..Len(cell) : cell[p] = "."}) <= 1
        /\ \E p \in (a + b + 1)..Len(cell) : IsDigit(cell[p])

\* N rows of N numbers each, N the number of rows
WellFormed(text) ==
    /\ \A r \in 1..RowCount(text) : CellsInRow(Body(text), r) = RowCount(text)
    /\ 1 + Cardinality({p \in 1..Len(Body(text)) : Body(text)[p] = "|"})
           = RowCount(text)
    /\ \A cell \in CellTexts(Body(text)) : IsNumber(cell)

\* C17: every text makeCustomMat accepts consists of exactly N rows of
\* exactly N decimal numbers.
C17_AcceptedIsWellFormed ==
    (MatReturned /\ fret[1] # Null) => WellFormed(fargs[1])

\* the n-th pair of window offsets, counted from 0, i slowest
OffsetI(a, n) == (n \div a[9]) - a[10]
OffsetJ(a, n) == (n % a[9]) - a[10]

\* the sample of the stated sum at offsets i, j, for the arguments a =
\* <<mat, image, x, y, channels, ch, width, height, matsize, halfmat>>
StatedSample(a, i, j) ==
    At(a[2], reflect(a[4] + j, a[8]) * a[7] * a[5]
                 + reflect(a[3] + i * a[5] + a[6], a[7] * a[5]))

RECURSIVE StatedSumFrom(_, _, _)
\* the stated sum, the terms from the n-th on added to sum
StatedSumFrom(a, n, sum) ==
    IF n >= a[9] * a[9] THEN sum
    ELSE The({StatedSumFrom(a, n + 1, sum1) :
              sum1 \in {DAdd(sum,
                             DMul(DOfInt(StatedSample(a, OffsetI(a, n),
                                                      OffsetJ(a, n))),
                                  At(a[1], (OffsetI(a, n) + a[10]) * a[9]
                                               + (OffsetJ(a, n) + a[10]))))}})

RECURSIVE SwappedSumFrom(_, _, _)
\* the same sum with the kernel read at [(j+h)*N + (i+h)]
SwappedSumFrom(a, n, sum) ==
    IF n >= a[9] * a[9] THEN sum
    ELSE The({SwappedSumFrom(a, n + 1, sum1) :
              sum1 \in {DAdd(sum,
                             DMul(DOfInt(StatedSample(a, OffsetI(a, n),
                                                      OffsetJ(a, n))),
                                  At(a[1], (OffsetJ(a, n) + a[10]) * a[9]
                                               + (OffsetI(a, n) + a[10]))))}})

ConvolveReturned == fn = "convolve" /\ pc = "return" /\ CallInBounds(fargs)

\* C18: a call of convolve whose samples all exist returns the sum, over the
\* offsets i and j in [-h, h], of image[reflect(y+j, height)*width*channels +
\* reflect(x + i*channels + ch, width*channels)] * kernel[(i+h)*N + (j+h)],
\* the terms added in the order of the loops.
C18_ConvolveSum ==
    ConvolveReturned => fret[1] = StatedSumFrom(fargs, 0, DZero(0))

\* a call with a kernel for which the order of the two offsets shows
C18_Witness ==
    /\ ConvolveReturned
    /\ fargs[9] = 3
    /\ fret[1] # SwappedSumFrom(fargs, 0, DZero(0))

\* the arguments of the call of convolve the iteration fargs = <<x, y, ch>>
\* makes with the kernel k of size n
PixelArgs(k, n) ==
    <<k, image, fargs[1], fargs[2], channels, fargs[3], width, height, n,
      n \div 2>>

\* what the iteration computes when the kernel is read at [(j+h)*N + (i+h)]
SwappedComputed ==
    IF alg = "sobel"
    THEN The({DSqrt(DAdd(DMul(g_x, g_x), DMul(g_y, g_y))) :
              g_x \in {SwappedSumFrom(PixelArgs(SobelMat(sobelX, sobel_type), 3),
                                      0, DZero(0))},
              g_y \in {SwappedSumFrom(PixelArgs(SobelMat(sobelY, sobel_type), 3),
                                      0, DZero(0))}})
    ELSE SwappedSumFrom(PixelArgs(mat, matsize), 0, DZero(0))

SwappedOut(bld) == threshold(Narrow(SwappedComputed, bld), th_lo, th_hi)

\* the n x n kernel k equals its transpose
Symmetric(k, n) ==
    \A i \in 0..(n - 1), j \in 0..(n - 1) :
        At(k, i * n + j) = At(k, j * n + i)

\* C19: for gauss, avg and sobel of every type, and for a custom kernel that
\* equals its transpose, the sample an iteration leaves (its reads inside the
\* image) is the one the evaluator with the kernel read at [(j+h)*N + (i+h)]
\* leaves; only a non-symmetric custom kernel is exempt.
C19_AxisSwapInvisible ==
    (/\ PixelReturned
     /\ ReadsInBounds(fargs[1], fargs[2], fargs[3])
     /\ ~(alg = "custom" /\ ~Symmetric(mat, matsize))) =>
        fret[1] \in {SwappedOut(bld) : bld \in Builds}

\* a Sobel iteration whose two gradient sums differ, so that exchanging them
\* is an exchange of different values
C19_Witness ==
    /\ PixelReturned
    /\ alg = "sobel"
    /\ ReadsInBounds(fargs[1], fargs[2], fargs[3])
    /\ GradientX(fargs[1], fargs[2], fargs[3])
           # GradientY(fargs[1], fargs[2], fargs[3])
    /\ fret[1] \in 1..254

\* a custom kernel for which the exchange shows in the output
C19_CustomDiffers ==
    /\ PixelReturned
    /\ alg = "custom"
    /\ ReadsInBounds(fargs[1], fargs[2], fargs[3])
    /\ \A bld \in Builds : fret[1] # SwappedOut(bld)

\* the column convolve reads at the column offset i, for the arguments a
ReadColumn(a, i) == reflect(a[3] + i * a[5] + a[6], a[7] * a[5])

\* C20: every sample a call of convolve reads for channel ch, its reads
\* inside the image, lies in a column whose index modulo the channel count
\* is ch.
C20_ReflectionKeepsChannel ==
    ConvolveReturned =>
        \A i \in (-fargs[10])..fargs[10] :
            ReadColumn(fargs, i) % fargs[5] = fargs[6]

=============================================================================
